---- MODULE Spec2Model ----
(***************************************************************************)
(* DebtGuardian (src/main.py): the resumable commit/file traversal driver  *)
(* `main`, the structured-output guard around the backend call, and the    *)
(* retry/backoff wrapper `call_openai_api`.                                *)
(*                                                                         *)
(* Python dicts are modelled as functions with a string domain: {} is the  *)
(* function with the empty domain, and a dict is truthy iff its domain is  *)
(* not empty.                                                              *)
(***************************************************************************)
EXTENDS Integers, Sequences, FiniteSets, TLC

(* ------------------------------ bounds --------------------------------- *)
\* commits yielded by Repository(repo_url).traverse_commits()
MaxCommits == 2
\* corrective re-requests the guard makes after a validation failure
MaxReasks == 1
\* largest retry budget passed to call_openai_api
MaxRetries == 3

(* --------------------------- schema (l.102-175) ------------------------ *)
TechnicalChoices ==
  { "Code Duplication", "Complex Code", "Long Methods",
    "Poorly Named Classes/Methods", "Lack of Modularity",
    "Insufficient Testing", "Outdated Documentation",
    "Lack of Coding Standards", "Hard-coded Values",
    "Deprecated Dependencies", "Ignoring Refactoring",
    "Error/Exception Handling", "Inefficient Resource Management",
    "Lack of Concurrency Control" }

SecurityChoices ==
  { "Hardcoded Secrets", "Insecure Dependencies", "Lack of Input Validation",
    "Insufficient Error Handling", "Inadequate Encryption",
    "Improper Session Management", "Insecure Default Settings",
    "Lack of Principle of Least Privilege",
    "Insecure Direct Object References",
    "Cross-Site Request Forgery (CSRF)", "Ignoring Security Warnings",
    "Not Adhering to Secure Coding Standards" }

\* a finding as the backend returns it; only `type` is constrained
Finding(t) ==
  [type |-> t, symptom |-> "s", affected_area |-> "a", suggested_repair |-> "r"]

\* a candidate CodeInfo object
CodeInfo(sec, tech) ==
  [snippet_functionality |-> "f", number_of_lines |-> 1,
   securityDebts |-> sec, technicalDebts |-> tech]

\* what the backend may answer to one request: a candidate object whose
\* findings carry labels of either kind, or an error
RawOutputs ==
  { CodeInfo(<<Finding("Hardcoded Secrets")>>, <<Finding("Code Duplication")>>),
    CodeInfo(<<Finding("Code Duplication")>>, <<>>),
    CodeInfo(<<>>, <<Finding("Hardcoded Secrets")>>) }

BackendError == [error |-> "backend"]

BackendAnswers == RawOutputs \cup {BackendError}

\* ValidChoices on every finding of a list
ValidChoicesLax(list, choices) == TRUE

ValidChoices(list, choices) ==
  \A k \in 1..Len(list) : list[k].type \in choices

\* validation of a candidate against CodeInfo
Validate(out) ==
  /\ ValidChoices(out.securityDebts, SecurityChoices)
  /\ ValidChoices(out.technicalDebts, TechnicalChoices)

NoneValue == [none |-> TRUE]

\* guard(...) with on_fail="reask": answers[k] is the backend's answer to the
\* k-th request; an invalid candidate is re-requested while rounds remain, and
\* when none remains the caller gets no validated output (None)
RECURSIVE GuardCall(_, _)
GuardCall(answers, k) ==
  IF answers[k] = BackendError THEN [kind |-> "raise", value |-> NoneValue]
  ELSE IF Validate(answers[k]) THEN [kind |-> "return", value |-> answers[k]]
  ELSE IF k <= MaxReasks /\ k < Len(answers) THEN GuardCall(answers, k + 1)
  ELSE [kind |-> "return", value |-> NoneValue]

\* debtDetect(code_changes, guard): returns validated_output
debtDetect(answers) == GuardCall(answers, 1)

(* --------------------------- repository -------------------------------- *)
repo_url == "https://github.com/o/r"

\* position of a commit in the history -> its hash (hashes are distinct)
HashOf(n) == CASE n = 1 -> "h1" [] n = 2 -> "h2" [] n = 3 -> "h3" [] OTHER -> "h4"

\* a modified-file record; source_code is None (FALSE here) for a pure
\* deletion and the file's text (TRUE here) otherwise
Modified(path, content) == [new_path |-> path, source_code |-> content]

\* os.path.splitext(filename)[1]
splitext(filename) ==
  CASE filename = "auth.py"   -> ".py"
    [] filename = "old.py"    -> ".py"
    [] filename = "util.js"   -> ".js"
    [] filename = "readme.md" -> ".md"
    [] OTHER                  -> ""

source_code_extensions ==
  { ".c", ".cpp", ".h", ".java", ".py", ".js", ".php", ".cs", ".rb", ".go",
    ".rs", ".ts", ".m", ".swift", ".f", ".f90", ".perl", ".sh", ".bash" }

is_source_code(filename) == splitext(filename) \in source_code_extensions

\* the lists of modified files a commit may carry
FileLists ==
  { <<>>,
    <<Modified("auth.py", TRUE)>>,
    <<Modified("readme.md", TRUE), Modified("auth.py", TRUE)>>,
    <<Modified("auth.py", TRUE), Modified("util.js", TRUE)>>,
    <<Modified("old.py", FALSE), Modified("util.js", TRUE)>> }

Repositories ==
  UNION { { [n \in 1..len |-> [hash |-> HashOf(n), modified_files |-> fl[n]]] :
              fl \in [1..len -> FileLists] } : len \in 1..MaxCommits }

(* ------------------------------ store ---------------------------------- *)
EmptyDict == [k \in {} |-> ""]

\* Python truthiness of a stored value
Truthy(v) == DOMAIN v # {}

\* the file <url>_debts.json: absent, or holding a JSON document, or cut
\* short between open(..., 'w') and the end of json.dump
NoFile == [exists |-> FALSE, valid |-> FALSE, data |-> EmptyDict]
StoreFile(d) == [exists |-> TRUE, valid |-> TRUE, data |-> d]
Truncated == [exists |-> TRUE, valid |-> FALSE, data |-> EmptyDict]

\* the store file before the first run: none, or one left with an empty
\* entry for the first commit
InitialFiles == { NoFile, StoreFile("h1" :> EmptyDict) }

\* os.getenv('OPENAI_API_KEY'): None when the variable is not set, else its
\* text, which may be empty
NoKey == [isNone |-> TRUE, text |-> ""]
Key(t) == [isNone |-> FALSE, text |-> t]
EnvKeys == { NoKey, Key(""), Key("sk-1") }

VARIABLES
  repo,      \* the commit sequence the traversal yields (fixed)
  resume,    \* the --resume flag of the current run
  pc,        \* position of the process: idle (not running) or a line of main
  i,         \* index of the current commit
  j,         \* index of the current modified file
  debts,     \* the in-memory store
  disk,      \* the store file
  loaded,    \* history: debts as main had it when the commit loop started
  calls,     \* history: <<hash, path>> given to the extraction client, this run
  done,      \* history: persist steps completed in this run, in order
  exit,      \* history: how the current/last run ended
  prev,      \* history: `done` of the previous run
  prevExit,  \* history: `exit` of the previous run
  api_key,   \* openai.api_key, set at module start-up
  retries,   \* call_openai_api: the retry budget of the call
  attempt,   \* call_openai_api: attempts made so far
  seconds,   \* call_openai_api: the local variable `seconds`
  apc,       \* call_openai_api: off, loop, returned or raised
  result,    \* call_openai_api: what the caller receives
  log        \* history: one record per attempt of the call

mainVars == <<repo, resume, pc, i, j, debts, disk, loaded, calls, done, exit,
              prev, prevExit, api_key>>

apiVars == <<retries, attempt, seconds, apc, result, log>>

vars == <<mainVars, apiVars>>

Init ==
  /\ repo \in Repositories
  /\ resume = FALSE
  /\ pc = "idle"
  /\ i = 0
  /\ j = 0
  /\ debts = EmptyDict
  /\ disk \in InitialFiles
  /\ loaded = EmptyDict
  /\ calls = {}
  /\ done = <<>>
  /\ exit = "never"
  /\ prev = <<>>
  /\ prevExit = "never"
  /\ api_key = NoKey
  /\ retries = 0
  /\ attempt = 0
  /\ seconds = -1
  /\ apc = "off"
  /\ result = "pending"
  /\ log = <<>>

\* l.51: not openai.api_key
KeyMissingOnlyNone(k) == k.isNone

KeyMissing(k) == k.isNone \/ k.text = ""

\* l.49-52: the process starts without a usable OPENAI_API_KEY: the module
\* raises ValueError before main is reached
StartAborts(key) ==
  /\ pc = "idle"
  /\ KeyMissing(key)
  /\ api_key' = key
  /\ resume' = FALSE
  /\ pc' = "idle"
  /\ i' = 0
  /\ j' = 0
  /\ debts' = EmptyDict
  /\ loaded' = EmptyDict
  /\ calls' = {}
  /\ done' = <<>>
  /\ exit' = "config_error"
  /\ prev' = done
  /\ prevExit' = exit
  /\ UNCHANGED <<repo, disk>>
  /\ UNCHANGED apiVars

\* l.49-52, l.293-299, l.261-263: the process starts with a key,
\* main(repo_url, resume)
Start(r, key) ==
  /\ pc = "idle"
  /\ ~KeyMissing(key)
  /\ api_key' = key
  /\ resume' = r
  /\ pc' = "load"
  /\ i' = 0
  /\ j' = 0
  /\ debts' = EmptyDict
  /\ loaded' = EmptyDict
  /\ calls' = {}
  /\ done' = <<>>
  /\ exit' = "none"
  /\ prev' = done
  /\ prevExit' = exit
  /\ UNCHANGED <<repo, disk>>
  /\ UNCHANGED apiVars

\* l.263-268: the store main starts with
InitialDebtsEmpty(r, f) == EmptyDict

InitialDebtsAlways(r, f) == IF f.exists THEN f.data ELSE EmptyDict

InitialDebts(r, f) == IF r /\ f.exists THEN f.data ELSE EmptyDict

\* l.266-268: load the store when resuming and the file exists; json.load
\* raises on a document that was cut short
Load ==
  /\ pc = "load"
  /\ IF resume /\ disk.exists
       THEN IF disk.valid
              THEN /\ debts' = InitialDebts(resume, disk)
                   /\ pc' = "commit"
                   /\ exit' = exit
              ELSE /\ debts' = debts
                   /\ pc' = "idle"
                   /\ exit' = "load_error"
       ELSE /\ debts' = InitialDebts(resume, disk)
            /\ pc' = "commit"
            /\ exit' = exit
  /\ loaded' = debts'
  /\ i' = 1
  /\ UNCHANGED <<api_key, repo, resume, j, disk, calls, done, prev, prevExit>>
  /\ UNCHANGED apiVars

\* l.271: commit.hash in debts and debts[commit.hash]
SkipNever(hash, d) == FALSE

SkipIfFalsy(hash, d) == hash \in DOMAIN d /\ ~Truthy(d[hash])

AlreadyProcessed(hash, d) == hash \in DOMAIN d /\ Truthy(d[hash])

\* l.270: the commit iterator is exhausted, main returns
Finish ==
  /\ pc = "commit"
  /\ i > Len(repo)
  /\ pc' = "idle"
  /\ exit' = "done"
  /\ UNCHANGED <<api_key, repo, resume, i, j, debts, disk, loaded, calls, done, prev,
                 prevExit>>
  /\ UNCHANGED apiVars

\* l.271-272: skip a commit that is already in the store
SkipCommit ==
  /\ pc = "commit"
  /\ i <= Len(repo)
  /\ AlreadyProcessed(repo[i].hash, debts)
  /\ i' = i + 1
  /\ UNCHANGED <<api_key, repo, resume, pc, j, debts, disk, loaded, calls, done, exit,
                 prev, prevExit>>
  /\ UNCHANGED apiVars

\* l.274-277: enter the file loop of a commit that is not skipped
EnterCommit ==
  /\ pc = "commit"
  /\ i <= Len(repo)
  /\ ~AlreadyProcessed(repo[i].hash, debts)
  /\ pc' = "file"
  /\ j' = 1
  /\ UNCHANGED <<api_key, repo, resume, i, debts, disk, loaded, calls, done, exit,
                 prev, prevExit>>
  /\ UNCHANGED apiVars

\* l.279: modified_files_content and is_source_code(modification.new_path)
QualifiesByExtension(m) == is_source_code(m.new_path)

Qualifies(m) == m.source_code /\ is_source_code(m.new_path)

\* l.277: the commit's modified files are exhausted
LeaveCommit ==
  /\ pc = "file"
  /\ j > Len(repo[i].modified_files)
  /\ pc' = "commit"
  /\ i' = i + 1
  /\ UNCHANGED <<api_key, repo, resume, j, debts, disk, loaded, calls, done, exit,
                 prev, prevExit>>
  /\ UNCHANGED apiVars

\* l.279: a file without content or without a source extension is passed over
SkipFile ==
  /\ pc = "file"
  /\ j <= Len(repo[i].modified_files)
  /\ ~Qualifies(repo[i].modified_files[j])
  /\ j' = j + 1
  /\ UNCHANGED <<api_key, repo, resume, pc, i, debts, disk, loaded, calls, done, exit,
                 prev, prevExit>>
  /\ UNCHANGED apiVars

\* l.284-285: debt["location"] = str(new_path); debt["repository"] = repo_url
EnrichSwapped(debt, m) ==
  ("location" :> repo_url) @@ ("repository" :> m.new_path) @@ debt

Enrich(debt, m) ==
  ("location" :> m.new_path) @@ ("repository" :> repo_url) @@ debt

\* l.287: debts[commit.hash] = debt
KeepFirst(d, hash, debt) ==
  IF hash \in DOMAIN d /\ Truthy(d[hash]) THEN d ELSE (hash :> debt) @@ d

StoreDebtOnly(d, hash, debt) == (hash :> debt)

StoreDebt(d, hash, debt) == (hash :> debt) @@ d

\* l.282-287: analyse a qualifying file and put the result in the store
Analyze(answers) ==
  /\ pc = "file"
  /\ j <= Len(repo[i].modified_files)
  /\ Qualifies(repo[i].modified_files[j])
  /\ LET m == repo[i].modified_files[j]
         r == debtDetect(answers)
     IN /\ r.kind = "return"
        /\ r.value # NoneValue
        /\ debts' = StoreDebt(debts, repo[i].hash, Enrich(r.value, m))
        /\ calls' = calls \cup {<<repo[i].hash, m.new_path>>}
  /\ pc' = "open"
  /\ UNCHANGED <<api_key, repo, resume, i, j, disk, loaded, done, exit, prev, prevExit>>
  /\ UNCHANGED apiVars

\* l.283-284: the extraction client raises, or returns None and the item
\* assignment of l.284 raises TypeError; main has no handler
AnalyzeFails(answers) ==
  /\ pc = "file"
  /\ j <= Len(repo[i].modified_files)
  /\ Qualifies(repo[i].modified_files[j])
  /\ LET r == debtDetect(answers)
     IN r.kind = "raise" \/ r.value = NoneValue
  /\ calls' = calls \cup {<<repo[i].hash, repo[i].modified_files[j].new_path>>}
  /\ pc' = "idle"
  /\ exit' = "file_error"
  /\ UNCHANGED <<api_key, repo, resume, i, j, debts, disk, loaded, done, prev, prevExit>>
  /\ UNCHANGED apiVars

\* l.289: open(debts_file, 'w') empties the file
OpenStore ==
  /\ pc = "open"
  /\ disk' = Truncated
  /\ pc' = "dump"
  /\ UNCHANGED <<api_key, repo, resume, i, j, debts, loaded, calls, done, exit, prev,
                 prevExit>>
  /\ UNCHANGED apiVars

\* l.291 and the end of the with block: the whole store is written
Dump ==
  /\ pc = "dump"
  /\ disk' = StoreFile(debts)
  /\ done' = Append(done, [hash |-> repo[i].hash,
                           path |-> repo[i].modified_files[j].new_path,
                           debt |-> debts[repo[i].hash]])
  /\ pc' = "file"
  /\ j' = j + 1
  /\ UNCHANGED <<api_key, repo, resume, i, debts, loaded, calls, exit, prev, prevExit>>
  /\ UNCHANGED apiVars

\* the process is terminated from outside at any point of a run
Kill ==
  /\ pc \notin {"idle"}
  /\ exit' = IF pc = "dump" THEN "killed_in_flush" ELSE "killed"
  /\ pc' = "idle"
  /\ UNCHANGED <<api_key, repo, resume, i, j, debts, disk, loaded, calls, done, prev,
                 prevExit>>
  /\ UNCHANGED apiVars

AnswerSeqs == [1..(MaxReasks + 1) -> BackendAnswers]

Next ==
  \/ \E key \in EnvKeys : StartAborts(key)
  \/ \E r \in BOOLEAN, key \in EnvKeys : Start(r, key)
  \/ Load
  \/ Finish
  \/ SkipCommit
  \/ EnterCommit
  \/ LeaveCommit
  \/ SkipFile
  \/ \E answers \in AnswerSeqs : Analyze(answers)
  \/ \E answers \in AnswerSeqs : AnalyzeFails(answers)
  \/ OpenStore
  \/ Dump
  \/ Kill

Spec == Init /\ [][Next]_vars

(* ---------------- call_openai_api(messages, retries=3) ----------------- *)
\* An error message is a sequence of tokens: a run of digits, or other text.
Num(n) == [kind |-> "num", text |-> "", val |-> n]
Word(w) == [kind |-> "word", text |-> w, val |-> 0]

Messages ==
  { <<Word("Rate limit reached, retry after"), Num(20), Word("seconds")>>,
    <<Word("retry in"), Num(1), Word("second"), Word("or"), Num(7),
      Word("seconds")>>,
    <<Word("Connection reset by peer")>>,
    <<Num(3), Word("requests per"), Word("seconds")>>,
    <<Word("Maximum context length"), Word("is"), Num(4097), Word("tokens")>> }

\* an exception: the class the except clauses tell apart, and its message
Error(cls, msg) == [cls |-> cls, msg |-> msg]

NoError == [cls |-> "", msg |-> <<>>]

\* `text in str(e)`
Contains(msg, text) == \E k \in 1..Len(msg) : msg[k] = Word(text)

\* l.76: the token limit test of the InvalidRequestError handler
IsTokenLimit(msg) ==
  Contains(msg, "Maximum context length") /\ Contains(msg, "tokens")

\* l.84: re.search(r'(\d+)\s+seconds?', str(e)): the first run of digits that
\* is followed by "second"; found = FALSE stands for no match
re_search(msg) ==
  LET hits == { k \in 1..(Len(msg) - 1) :
                  /\ msg[k].kind = "num"
                  /\ msg[k + 1] \in { Word("second"), Word("seconds") } }
  IN IF hits = {}
       THEN [found |-> FALSE, group1 |-> 0]
       ELSE [found |-> TRUE,
             group1 |-> msg[CHOOSE k \in hits : \A m \in hits : k <= m].val]

\* `seconds` before its first assignment
Unbound == 0 - 1

\* the call starts: for _ in range(retries)
InitApi ==
  /\ repo = <<[hash |-> "h1", modified_files |-> <<>>]>>
  /\ resume = FALSE
  /\ pc = "off"
  /\ i = 0
  /\ j = 0
  /\ debts = EmptyDict
  /\ disk = NoFile
  /\ loaded = EmptyDict
  /\ calls = {}
  /\ done = <<>>
  /\ exit = "never"
  /\ prev = <<>>
  /\ prevExit = "never"
  /\ api_key = Key("sk-1")
  /\ retries \in 1..MaxRetries
  /\ attempt = 0
  /\ seconds = Unbound
  /\ apc = "loop"
  /\ result = "pending"
  /\ log = <<>>

Entry(err, printed, slept, how) ==
  [error |-> err, printed |-> printed, slept |-> slept, exit |-> how]

\* l.61: for _ in range(retries): another iteration after n of them
InRangeInclusive(n, budget) == n <= budget

InRange(n, budget) == n < budget

\* l.62-73: the backend answers, the response is returned
AttemptReturns ==
  /\ apc = "loop"
  /\ InRange(attempt, retries)
  /\ attempt' = attempt + 1
  /\ log' = Append(log, Entry(NoError, <<>>, <<>>, "return"))
  /\ apc' = "returned"
  /\ result' = "response"
  /\ UNCHANGED <<retries, seconds>>
  /\ UNCHANGED mainVars

\* l.74-79: InvalidRequestError about the token limit: message, break, and
\* the function ends without a return statement
AttemptTokenLimit(msg) ==
  /\ apc = "loop"
  /\ InRange(attempt, retries)
  /\ IsTokenLimit(msg)
  /\ attempt' = attempt + 1
  /\ log' = Append(log, Entry(Error("InvalidRequestError", msg),
                              <<"token_limit">>, <<>>, "break"))
  /\ apc' = "returned"
  /\ result' = "None"
  /\ UNCHANGED <<retries, seconds>>
  /\ UNCHANGED mainVars

\* l.74-76: any other InvalidRequestError: the handler body does nothing and
\* the loop goes on
AttemptInvalidRequest(msg) ==
  /\ apc = "loop"
  /\ InRange(attempt, retries)
  /\ ~IsTokenLimit(msg)
  /\ attempt' = attempt + 1
  /\ log' = Append(log, Entry(Error("InvalidRequestError", msg),
                              <<>>, <<>>, "continue"))
  /\ UNCHANGED <<retries, seconds, apc, result>>
  /\ UNCHANGED mainVars

\* l.80-91: any other exception: parse the wait, announce it and sleep; with
\* `seconds` never assigned, l.90 raises UnboundLocalError out of the call
AttemptFails(msg) ==
  /\ apc = "loop"
  /\ InRange(attempt, retries)
  /\ attempt' = attempt + 1
  /\ LET match == re_search(msg)
         secs == IF match.found THEN match.group1 ELSE seconds
         said == <<"error", IF match.found THEN "seconds_value"
                                           ELSE "seconds_not_found">>
     IN /\ seconds' = secs
        /\ IF secs = Unbound
             THEN /\ log' = Append(log, Entry(Error("Exception", msg), said,
                                              <<>>, "raise"))
                  /\ apc' = "raised"
                  /\ result' = "UnboundLocalError"
             ELSE /\ log' = Append(log, Entry(Error("Exception", msg),
                                              said \o <<"retrying">>,
                                              <<secs>>, "continue"))
                  /\ UNCHANGED <<apc, result>>
  /\ UNCHANGED retries
  /\ UNCHANGED mainVars

\* l.61: range(retries) is exhausted and the function ends without a return
\* statement (the `else` of l.92 belongs to the try, whose body leaves by
\* `return`, so its raise is never executed)
LoopEnds ==
  /\ apc = "loop"
  /\ ~InRange(attempt, retries)
  /\ apc' = "returned"
  /\ result' = "None"
  /\ UNCHANGED <<retries, attempt, seconds, log>>
  /\ UNCHANGED mainVars

NextApi ==
  \/ AttemptReturns
  \/ \E msg \in Messages : AttemptTokenLimit(msg)
  \/ \E msg \in Messages : AttemptInvalidRequest(msg)
  \/ \E msg \in Messages : AttemptFails(msg)
  \/ LoopEnds

SpecApi == InitApi /\ [][NextApi]_vars

(* ------------------------------ properties ----------------------------- *)
\* a commit of the repository has a file the extraction client would take
HasQualifying(c) ==
  \E k \in 1..Len(c.modified_files) : Qualifies(c.modified_files[k])

\* the membership of every finding's type in a category set
TypesIn(list, choices) == \A k \in 1..Len(list) : list[k].type \in choices

Conforms(v) ==
  /\ "securityDebts" \in DOMAIN v => TypesIn(v.securityDebts, SecurityChoices)
  /\ "technicalDebts" \in DOMAIN v => TypesIn(v.technicalDebts, TechnicalChoices)

\* C1 (Resumability): in a run with resume enabled, no modified file of a
\* commit whose hash the loaded store maps to a non-empty value is ever given
\* to the extraction client.
C1_Resumability ==
  resume =>
    \A c \in calls : ~(c[1] \in DOMAIN loaded /\ Truthy(loaded[c[1]]))

\* a resumed run has gone through the whole history, passing over a commit
\* that has a qualifying file and a non-empty loaded entry, and analysing
\* another commit
C1_Witness ==
  /\ resume
  /\ exit = "done"
  /\ calls # {}
  /\ \E n \in 1..Len(repo) :
       /\ HasQualifying(repo[n])
       /\ repo[n].hash \in DOMAIN loaded
       /\ Truthy(loaded[repo[n].hash])

\* C2 (Durability): when a run is killed after the persist step of its N-th
\* file completed and the program is restarted with resume enabled, the
\* store loaded at restart holds the result of each of the N files and none
\* of them is analysed again.
C2_Durability ==
  (resume /\ prevExit = "killed" /\ i >= 1) =>
    \A k \in 1..Len(prev) :
      /\ prev[k].hash \in DOMAIN loaded
      /\ loaded[prev[k].hash] = prev[k].debt
      /\ <<prev[k].hash, prev[k].path>> \notin calls

\* C3 (Crash safety of the flush): wherever a run is terminated, the store
\* file still holds an entry for every persist step that had completed.
C3_CrashSafety ==
  exit \in {"killed", "killed_in_flush"} =>
    \A k \in 1..Len(done) :
      /\ disk.valid
      /\ done[k].hash \in DOMAIN disk.data

\* C4 (Idempotence): during a run with resume enabled that follows a
\* completed run, no step calls the extraction client and no step changes
\* the store file.
C4_Idempotence ==
  [][(prevExit = "done" /\ resume /\ exit = "none")
       => (calls' = {} /\ disk' = disk)]_vars

\* the second, resumed run has completed over a store that holds results
C4_Witness ==
  /\ prevExit = "done"
  /\ resume
  /\ exit = "done"
  /\ disk.valid
  /\ \E n \in 1..Len(repo) :
       /\ HasQualifying(repo[n])
       /\ repo[n].hash \in DOMAIN disk.data
       /\ Truthy(disk.data[repo[n].hash])

\* C5 (Per-file error isolation): a terminal error of one file's analysis
\* never ends the run; the driver goes on with the next file.
C5_ErrorIsolation == ~(pc = "idle" /\ exit = "file_error")

\* an attempt that failed and was not the token limit case
FailedAttempt(e) ==
  /\ e.error # NoError
  /\ ~(e.error.cls = "InvalidRequestError" /\ IsTokenLimit(e.error.msg))

\* the token limit case
TokenLimitAttempt(e) ==
  /\ e.error # NoError
  /\ e.error.cls = "InvalidRequestError"
  /\ IsTokenLimit(e.error.msg)

\* C6 (Retry bound): when all `retries` attempts of a call have failed, the
\* call ends by raising to its caller, with no attempt beyond the budget.
C6_RetryBound ==
  ( /\ apc \in {"returned", "raised"}
    /\ Len(log) = retries
    /\ \A k \in 1..Len(log) : FailedAttempt(log[k]) )
  => (apc = "raised" /\ attempt = retries)

\* C7 (Context overflow): a token limit failure is the last attempt, is
\* followed by no sleep, prints the user-facing message, and the call ends by
\* raising to its caller.
C7_ContextOverflow ==
  \A k \in 1..Len(log) :
    TokenLimitAttempt(log[k]) =>
      /\ k = Len(log)
      /\ log[k].slept = <<>>
      /\ log[k].printed = <<"token_limit">>
      /\ apc = "raised"

\* C8 (Missing wait duration): after a failed attempt whose message holds no
\* "<n> second(s)", the wrapper does not sleep and goes on with the loop.
C8_NoWaitWithoutDuration ==
  \A k \in 1..Len(log) :
    (FailedAttempt(log[k]) /\ ~re_search(log[k].error.msg).found) =>
      (log[k].slept = <<>> /\ log[k].exit = "continue")

\* C9 (Parsed backoff): after a failed attempt whose message embeds
\* "<n> second(s)", the wrapper sleeps exactly n seconds, once.
C9_ParsedBackoff ==
  \A k \in 1..Len(log) :
    (FailedAttempt(log[k]) /\ re_search(log[k].error.msg).found) =>
      log[k].slept = <<re_search(log[k].error.msg).group1>>

\* C10 (Schema conformance of the store): every finding of every result in
\* the in-memory store and in the store file has a type of its kind's set.
C10_SchemaConformance ==
  /\ \A h \in DOMAIN debts : Conforms(debts[h])
  /\ \A h \in DOMAIN disk.data : Conforms(disk.data[h])

\* a result with findings of both kinds has been written to the store file
C10_Witness ==
  /\ disk.valid
  /\ \E h \in DOMAIN disk.data :
       /\ Truthy(disk.data[h])
       /\ disk.data[h].securityDebts # <<>>
       /\ disk.data[h].technicalDebts # <<>>

\* the files of commit c the extraction client would take
QualifyingPaths(c) ==
  { c.modified_files[k].new_path : k \in
      { n \in 1..Len(c.modified_files) : Qualifies(c.modified_files[n]) } }

\* the commit of the repository with hash h
CommitOf(h) == repo[CHOOSE n \in 1..Len(repo) : repo[n].hash = h]

\* C11 (Provenance enrichment): every entry a run has persisted carries the
\* analysed file's new path as location and the run's repo_url as repository;
\* for a commit with exactly one qualifying file the store then maps the
\* commit's hash to that entry, in memory and in the written file.
C11_Provenance ==
  \A k \in 1..Len(done) :
    /\ done[k].debt.location = done[k].path
    /\ done[k].debt.repository = repo_url
    /\ done[k].path \in QualifyingPaths(CommitOf(done[k].hash))
    /\ Cardinality(QualifyingPaths(CommitOf(done[k].hash))) = 1 =>
         /\ done[k].hash \in DOMAIN debts
         /\ debts[done[k].hash] = done[k].debt
         /\ disk.valid =>
              /\ done[k].hash \in DOMAIN disk.data
              /\ disk.data[done[k].hash].location = done[k].path
              /\ disk.data[done[k].hash].repository = repo_url

\* readme.md and auth.py in one commit: the written file has exactly the
\* commit's hash as key, with location auth.py
C11_Witness ==
  /\ disk.valid
  /\ Len(done) = 1
  /\ Len(CommitOf(done[1].hash).modified_files) = 2
  /\ DOMAIN disk.data = {done[1].hash}
  /\ disk.data[done[1].hash].location = "auth.py"
  /\ disk.data[done[1].hash].repository = repo_url

\* C12 (Fatal configuration): a start without a usable OPENAI_API_KEY ends
\* at once with an error: no commit is traversed, the extraction client is
\* not called and the store file is left as it was.
C12_FatalConfiguration ==
  [][(api_key'.isNone \/ api_key'.text = "") =>
       /\ pc' = "idle"
       /\ exit' = "config_error"
       /\ i' = 0
       /\ calls' = {}
       /\ done' = <<>>
       /\ debts' = EmptyDict
       /\ disk' = disk]_vars

\* a start with an empty key after a completed run: the written store file is
\* still there
C12_Witness ==
  /\ api_key = Key("")
  /\ exit = "config_error"
  /\ prevExit = "done"
  /\ prev # <<>>
  /\ disk.valid
  /\ DOMAIN disk.data # {}

\* the steps of C13: the store update of an analysis, the flush that follows
\* it, and the steps that pass over a file or a commit
C13_Step ==
  /\ (pc = "file" /\ pc' = "open") =>
       LET h == repo[i].hash
           m == repo[i].modified_files[j]
       IN /\ DOMAIN debts' = DOMAIN debts \cup {h}
          /\ debts'[h].location = m.new_path
          /\ \A k \in DOMAIN debts \ {h} : debts'[k] = debts[k]
          /\ disk' = disk
  /\ (pc = "open" /\ pc' # "idle") => (pc' = "dump" /\ debts' = debts)
  /\ (pc = "dump" /\ pc' # "idle") =>
       (pc' = "file" /\ debts' = debts /\ disk' = StoreFile(debts))
  /\ (pc \in {"commit", "file"} /\ pc' \in {"commit", "file"}) =>
       (debts' = debts /\ disk' = disk)

\* after a flush the file equals the in-memory store, and of the results
\* persisted under one hash the file holds the last
C13_State ==
  /\ (pc \in {"commit", "file"} /\ done # <<>>) => disk = StoreFile(debts)
  /\ \A k \in 1..Len(done) :
       (disk.valid /\ \A n \in (k + 1)..Len(done) : done[n].hash # done[k].hash)
         => disk.data[done[k].hash] = done[k].debt

\* C13 (Store update and flush): a successful analysis of a file of commit C
\* sets the in-memory entry of C to that file's enriched result and leaves
\* the other keys alone; the whole store is then written, after which file
\* and memory agree; a later file of C replaces the entry; passing over a
\* file or a commit writes nothing.
C13_StoreUpdateAndFlush == []C13_State /\ [][C13_Step]_vars

\* two qualifying files of one commit were persisted: the file holds the
\* second result only
C13_Witness ==
  /\ pc = "file"
  /\ Len(done) = 2
  /\ done[1].hash = done[2].hash
  /\ done[1].path = "auth.py"
  /\ disk = StoreFile(debts)
  /\ disk.data[done[2].hash].location = "util.js"

\* C14 (Partial commit on resume): when the previous run was interrupted
\* after it had persisted results, a resumed run gives no file of the commits
\* of those results to the extraction client, the files of such a commit that
\* were never analysed included.
C14_PartialCommitOnResume ==
  (resume /\ i >= 1 /\ prevExit \in {"killed", "file_error"}) =>
    \A k \in 1..Len(prev) : \A c \in calls : c[1] # prev[k].hash

\* the previous run was killed with one of two qualifying files of a commit
\* persisted; the resumed run has gone through the whole history and the
\* other file was left out
C14_Witness ==
  /\ resume
  /\ exit = "done"
  /\ prevExit = "killed"
  /\ Len(prev) = 1
  /\ prev[1].path = "auth.py"
  /\ QualifyingPaths(CommitOf(prev[1].hash)) = {"auth.py", "util.js"}
  /\ <<prev[1].hash, "util.js">> \notin calls
  /\ debts[prev[1].hash].location = "auth.py"

\* C15 (Extraction goes through the retry wrapper): whenever the extraction
\* client has been called for a file, call_openai_api has been entered, and
\* an analysis that failed did so only after the wrapper made attempts.
C15_ThroughRetryWrapper ==
  /\ calls # {} => apc # "off"
  /\ exit = "file_error" => attempt >= 1

\* C16 (Attempt count of the wrapper): attempts are made one at a time and
\* never more than `retries` of them; a successful attempt is the last one,
\* its response is what the call returns, and no sleep follows it.
C16_AttemptCount ==
  /\ attempt <= retries
  /\ Len(log) = attempt
  /\ \A k \in 1..Len(log) :
       log[k].error = NoError =>
         /\ k = attempt
         /\ apc = "returned"
         /\ result = "response"
         /\ log[k].slept = <<>>
         /\ \A n \in 1..(k - 1) : log[n].error # NoError
  /\ result = "response" => (attempt >= 1 /\ log[attempt].error = NoError)

\* the third attempt succeeded after two failures with a parsed wait
C16_Witness ==
  /\ result = "response"
  /\ attempt = 3
  /\ log[1].slept = <<20>>
  /\ log[2].slept # <<>>
  /\ log[3].error = NoError

\* C17 (No silent swallowing): every failed attempt, whatever the class of
\* its error, prints something before the wrapper retries or gives up.
C17_NoSilentSwallowing ==
  \A k \in 1..Len(log) : log[k].error # NoError => log[k].printed # <<>>

\* the filter as the claim states it: content present and a recognised
\* source extension
PassesFilter(m) ==
  m.source_code /\ splitext(m.new_path) \in source_code_extensions

\* C18 (File filter): inside a commit that is not skipped, of the files the
\* loop has reached, in the order of the list, exactly those with content and
\* a recognised extension were given to the extraction client; files further
\* on were not yet; only files that pass are ever called for or persisted.
C18_FileFilter ==
  /\ pc \in {"file", "open", "dump"} =>
       LET h == repo[i].hash
           files == repo[i].modified_files
       IN \A k \in 1..Len(files) :
            (<<h, files[k].new_path>> \in calls) <=>
              ( /\ PassesFilter(files[k])
                /\ (k < j \/ (k = j /\ pc \in {"open", "dump"})) )
  /\ \A c \in calls :
       \E k \in 1..Len(CommitOf(c[1]).modified_files) :
         /\ CommitOf(c[1]).modified_files[k].new_path = c[2]
         /\ PassesFilter(CommitOf(c[1]).modified_files[k])
  /\ \A n \in 1..Len(done) :
       \E k \in 1..Len(CommitOf(done[n].hash).modified_files) :
         /\ CommitOf(done[n].hash).modified_files[k].new_path = done[n].path
         /\ PassesFilter(CommitOf(done[n].hash).modified_files[k])

\* the file loop has gone through a deleted old.py and then util.js: only
\* util.js was analysed and persisted
C18_Witness ==
  /\ pc = "file"
  /\ Len(repo[i].modified_files) = 2
  /\ j = 3
  /\ repo[i].modified_files[1] = Modified("old.py", FALSE)
  /\ calls = {<<repo[i].hash, "util.js">>}
  /\ Len(done) = 1
  /\ done[1].path = "util.js"

\* the steps of C19: the load, and the skip of a commit
C19_Step ==
  /\ (pc = "load" /\ pc' = "commit") =>
       debts' = IF resume /\ disk.exists THEN disk.data ELSE EmptyDict
  /\ (pc = "commit" /\ pc' = "commit" /\ i' = i + 1) => resume

\* without resume the run starts from the empty store, and what it writes
\* holds the results of this run only
C19_State ==
  ~resume =>
    /\ loaded = EmptyDict
    /\ (done # <<>> /\ disk.valid) =>
         DOMAIN disk.data = { done[k].hash : k \in 1..Len(done) }

\* C19 (Initial store): main starts from the content of the store file when
\* resume is enabled and the file exists, and from the empty store otherwise;
\* with resume disabled no commit is skipped and the first persist step
\* leaves in the file only the results of this run.
C19_InitialStore == []C19_State /\ [][C19_Step]_vars

\* a run without resume after a completed run: its first persist step has
\* dropped the other commit's entry from the file
C19_Witness ==
  /\ ~resume
  /\ prevExit = "done"
  /\ Len(done) = 1
  /\ disk.valid
  /\ DOMAIN disk.data = {done[1].hash}
  /\ \E k \in 1..Len(prev) : prev[k].hash # done[1].hash

\* C20 (Loaded entries are kept): in a run with resume enabled every entry
\* loaded with a non-empty value stays, with the same value, in the in-memory
\* store and in the store file as the run writes it; no loaded key and no key
\* of this run is ever missing from the store; the keys the run assigns are
\* keys that were absent or had an empty value at load time.
C20_LoadedEntriesKept ==
  (resume /\ i >= 1) =>
    /\ DOMAIN loaded \subseteq DOMAIN debts
    /\ disk.valid => DOMAIN loaded \subseteq DOMAIN disk.data
    /\ \A h \in DOMAIN loaded :
         Truthy(loaded[h]) =>
           /\ debts[h] = loaded[h]
           /\ disk.valid => disk.data[h] = loaded[h]
    /\ \A k \in 1..Len(done) :
         /\ done[k].hash \in DOMAIN debts
         /\ disk.valid => done[k].hash \in DOMAIN disk.data
         /\ ~(done[k].hash \in DOMAIN loaded /\ Truthy(loaded[done[k].hash]))

\* a resumed run that loaded a result for one commit has written the store
\* with a result for another commit added
C20_Witness ==
  /\ resume
  /\ disk.valid
  /\ Len(done) >= 1
  /\ \E h \in DOMAIN loaded :
       /\ Truthy(loaded[h])
       /\ h # done[1].hash
       /\ disk.data[h] = loaded[h]
       /\ DOMAIN disk.data = {h, done[1].hash}

====
